---- MODULE Spec2Model ----
(***************************************************************************)
(* A model of lexgo: the Lexer engine (Next, Emit, EmitErr, ReadRune,      *)
(* readRune, PeekRune, BufferRune) and the reference lisp grammar          *)
(* (lexWhitespace, lexComment, lexAlphaNum) of src/example/example.go.     *)
(*                                                                         *)
(* A rune is a one-character string.  The byte stream is a sequence of     *)
(* stream units: a unit is a rune that decodes, or Invalid, one byte that  *)
(* does not decode.  A string (Token.Val, outbuf) is a sequence of runes.  *)
(***************************************************************************)
EXTENDS Integers, Sequences, FiniteSets, TLC

(* ------------------------------ bounds --------------------------------- *)

\* longest enumerated input stream, in stream units
MaxLen == 3
\* longest input stream handed to the general client
MaxClientLen == 2
\* most calls of the Lexer's methods the general client makes
MaxOps == 4

(* ------------------------- program constants --------------------------- *)

\* TokenType enumerators
Err == 0
UserDefined == 1
OpenParen == UserDefined + 0
CloseParen == UserDefined + 1
AlphaNum == UserDefined + 2

\* capacity of Lexer.ch
ChanCap == 1

\* error values; NoErr is Go's nil error
NoErr == "nil"
EOF == "io.EOF"
errInvalidUTF8 == "invalid utf8 character"
\* a failure of the underlying io.Reader other than io.EOF
ErrIO == "io failure"

\* the nil LexerFunc
Nil == "nil"

\* the rune returned next to an error (Go's zero rune)
NulRune == "NUL"
\* unicode.ReplacementChar, what bufio decodes an undecodable byte to
ReplacementChar == "U+FFFD"
\* a stream unit that is one byte which does not decode as UTF-8
Invalid == "0xFF"

(* ---------------------------- character classes ------------------------ *)

Letters == {"a", "b", "c", "e", "m", "n", "o", "t", "x"}
Digits == {"1"}
Spaces == {" ", "\n"}

IsSpace(r) == r \in Spaces
IsLetter(r) == r \in Letters
IsNumber(r) == r \in Digits

(* ------------------------------- inputs -------------------------------- *)

\* the stream units the enumerated inputs are made of
Alphabet == {"(", ")", "a", "1", " ", "\n", "#", "!", Invalid}

\* the two end-to-end scenarios of the specification
InputParenAB == <<"(", "a", " ", "b", ")">>
InputComment ==
  <<"#", " ", "c", "o", "m", "m", "e", "n", "t", "\n", "(", "x", ")">>

SeqsUpTo(S, n) == UNION {[1..k -> S] : k \in 0..n}

\* two lines in the shape of example.lisp: "(a" newline " b1)"
InputLines == <<"(", "a", "\n", " ", "b", "1", ")">>

Inputs ==
  SeqsUpTo(Alphabet, MaxLen) \cup {InputParenAB, InputComment, InputLines}

\* the streams of the general client: a rune, a newline, an undecodable byte
ClientAlphabet == {"a", "\n", Invalid}
ClientInputs == SeqsUpTo(ClientAlphabet, MaxClientLen)

\* how the underlying reader ends once its bytes are used up
EndErrs == {EOF, ErrIO}

VARIABLES
  l,          \* the Lexer: r, outbuf, ch, state, row, col, absRow, absCol
  pc,         \* where the (single) goroutine is
  delivered,  \* the tokens Next has returned so far, oldest first
  last,       \* the general client's last call of a method, and what it got
  nops,       \* how many calls of methods the general client has made
  buffered,   \* history: the runes given to BufferRune since the last Emit
  readLog,    \* history: the runes the successful ReadRune calls returned
  peekLog,    \* history: the successful PeekRune calls since the last ReadRune
  start,      \* history: when the first rune of the last token was buffered
  before      \* history: l and peekLog as they were before the last call

vars ==
  <<l, pc, delivered, last, nops, buffered, readLog, peekLog, start, before>>
client == <<last, nops, buffered, readLog, peekLog, start, before>>

(* ------------------------------- Token --------------------------------- *)

Token(t, val, row, col, err) ==
  [TokenType |-> t, Val |-> val, Row |-> row, Col |-> col, Err |-> err]

(* ---------------------------- bufio.Reader ----------------------------- *)

\* l.r: the bytes of the stream, how many units were consumed, the error the
\* underlying reader gives at the end, and whether the last operation was a
\* ReadRune (bufio's lastRuneSize >= 0)
NewReader(input, endErr) ==
  [buf |-> input, pos |-> 0, endErr |-> endErr, canUnread |-> FALSE]

\* l.r.ReadRune(): (rune, size, err)
BufioReadRune(rd) ==
  IF rd.pos >= Len(rd.buf)
    THEN [rd |-> [rd EXCEPT !.canUnread = FALSE],
          rune |-> NulRune, size |-> 0, err |-> rd.endErr]
    ELSE LET u == rd.buf[rd.pos + 1] IN
         [rd |-> [rd EXCEPT !.pos = @ + 1, !.canUnread = TRUE],
          rune |-> IF u = Invalid THEN ReplacementChar ELSE u,
          size |-> 1,
          err |-> NoErr]

\* l.r.UnreadRune(): err
BufioUnreadRune(rd) ==
  IF rd.canUnread /\ rd.pos > 0
    THEN [rd |-> [rd EXCEPT !.pos = @ - 1, !.canUnread = FALSE], err |-> NoErr]
    ELSE [rd |-> rd, err |-> ErrIO]

(* ------------------------------- Lexer --------------------------------- *)

NewLexer(input, endErr, firstFunc) ==
  [r |-> NewReader(input, endErr),
   outbuf |-> <<>>,
   ch |-> <<>>,
   state |-> firstFunc,
   row |-> -1,
   col |-> -1,
   absRow |-> 1,
   absCol |-> 0]

\* l.ch <- tok: a send on a full channel never completes (blocked)
\* Send on a channel that takes any number of tokens
Send_NeverBlocks(lx, tok) ==
  [l |-> [lx EXCEPT !.ch = Append(@, tok)], blocked |-> FALSE]

Send(lx, tok) ==
  IF Len(lx.ch) < ChanCap
    THEN [l |-> [lx EXCEPT !.ch = Append(@, tok)], blocked |-> FALSE]
    ELSE [l |-> lx, blocked |-> TRUE]

\* Emit leaving the buffer as it is
Emit_KeepsBuffer(lx, t) ==
  LET s == Send(lx, Token(t, lx.outbuf, lx.row, lx.col, NoErr)) IN
  IF s.blocked
    THEN s
    ELSE [l |-> [s.l EXCEPT !.row = -1, !.col = -1], blocked |-> FALSE]

Emit(lx, t) ==
  LET s == Send(lx, Token(t, lx.outbuf, lx.row, lx.col, NoErr)) IN
  IF s.blocked
    THEN s
    ELSE [l |-> [s.l EXCEPT !.outbuf = <<>>, !.row = -1, !.col = -1],
          blocked |-> FALSE]

\* EmitErr emptying the output buffer as Emit does
EmitErr_ResetsBuffer(lx, err) ==
  LET s == Send(lx, Token(Err, <<>>, 0, 0, err)) IN
  IF s.blocked
    THEN s
    ELSE [l |-> [s.l EXCEPT !.outbuf = <<>>, !.row = -1, !.col = -1],
          blocked |-> FALSE]

\* EmitErr giving its token a user-defined type
EmitErr_UserType(lx, err) ==
  Send(lx, Token(UserDefined, <<>>, 0, 0, err))

EmitErr(lx, err) ==
  Send(lx, Token(Err, <<>>, 0, 0, err))

\* readRune without the check of the decoding
readRune_NoUtf8Check(lx) ==
  LET b == BufioReadRune(lx.r)
      lx1 == [lx EXCEPT !.r = b.rd]
  IN  IF b.err # NoErr
        THEN LET e == EmitErr(lx1, b.err) IN
             [l |-> e.l, r |-> NulRune, err |-> b.err, blocked |-> e.blocked]
        ELSE [l |-> lx1, r |-> b.rune, err |-> NoErr, blocked |-> FALSE]

\* readRune leaving the error for its caller to publish
readRune_Silent(lx) ==
  LET b == BufioReadRune(lx.r)
      lx1 == [lx EXCEPT !.r = b.rd]
  IN  IF b.err # NoErr
        THEN [l |-> lx1, r |-> NulRune, err |-> b.err, blocked |-> FALSE]
        ELSE IF b.rune = ReplacementChar /\ b.size = 1
          THEN [l |-> lx1, r |-> NulRune, err |-> errInvalidUTF8,
                blocked |-> FALSE]
          ELSE [l |-> lx1, r |-> b.rune, err |-> NoErr, blocked |-> FALSE]

readRune(lx) ==
  LET b == BufioReadRune(lx.r)
      lx1 == [lx EXCEPT !.r = b.rd]
  IN  IF b.err # NoErr
        THEN LET e == EmitErr(lx1, b.err) IN
             [l |-> e.l, r |-> NulRune, err |-> b.err, blocked |-> e.blocked]
        ELSE IF b.rune = ReplacementChar /\ b.size = 1
          THEN LET e == EmitErr(lx1, errInvalidUTF8) IN
               [l |-> e.l, r |-> NulRune, err |-> errInvalidUTF8,
                blocked |-> e.blocked]
          ELSE [l |-> lx1, r |-> b.rune, err |-> NoErr, blocked |-> FALSE]

\* ReadRune not resetting the column at a newline
ReadRune_ColNotReset(lx) ==
  LET rr == readRune(lx) IN
  IF rr.blocked \/ rr.err # NoErr
    THEN [l |-> rr.l, r |-> NulRune, err |-> rr.err, blocked |-> rr.blocked]
    ELSE IF rr.r = "\n"
      THEN [l |-> [rr.l EXCEPT !.absRow = @ + 1, !.absCol = @ + 1],
            r |-> rr.r, err |-> NoErr, blocked |-> FALSE]
      ELSE [l |-> [rr.l EXCEPT !.absCol = @ + 1],
            r |-> rr.r, err |-> NoErr, blocked |-> FALSE]

ReadRune(lx) ==
  LET rr == readRune(lx) IN
  IF rr.blocked \/ rr.err # NoErr
    THEN [l |-> rr.l, r |-> NulRune, err |-> rr.err, blocked |-> rr.blocked]
    ELSE IF rr.r = "\n"
      THEN [l |-> [rr.l EXCEPT !.absRow = @ + 1, !.absCol = 0],
            r |-> rr.r, err |-> NoErr, blocked |-> FALSE]
      ELSE [l |-> [rr.l EXCEPT !.absCol = @ + 1],
            r |-> rr.r, err |-> NoErr, blocked |-> FALSE]

\* PeekRune without the UnreadRune
PeekRune_NoUnread(lx) ==
  LET rr == readRune(lx) IN
  IF rr.blocked \/ rr.err # NoErr
    THEN [l |-> rr.l, r |-> NulRune, err |-> rr.err, blocked |-> rr.blocked]
    ELSE [l |-> rr.l, r |-> rr.r, err |-> NoErr, blocked |-> FALSE]

PeekRune(lx) ==
  LET rr == readRune(lx) IN
  IF rr.blocked \/ rr.err # NoErr
    THEN [l |-> rr.l, r |-> NulRune, err |-> rr.err, blocked |-> rr.blocked]
    ELSE LET u == BufioUnreadRune(rr.l.r)
             lx1 == [rr.l EXCEPT !.r = u.rd]
         IN  IF u.err # NoErr
               THEN LET e == EmitErr(lx1, u.err) IN
                    [l |-> e.l, r |-> NulRune, err |-> u.err,
                     blocked |-> e.blocked]
               ELSE [l |-> lx1, r |-> rr.r, err |-> NoErr, blocked |-> FALSE]

\* BufferRune recording the position at every call
BufferRune_AlwaysRecords(lx, r) ==
  [lx EXCEPT !.outbuf = Append(@, r), !.row = lx.absRow, !.col = lx.absCol]

BufferRune(lx, r) ==
  LET lx1 == [lx EXCEPT !.outbuf = Append(@, r)] IN
  IF lx.row < 0 /\ lx.col < 0
    THEN [lx1 EXCEPT !.row = lx.absRow, !.col = lx.absCol]
    ELSE lx1

(* -------------------------- reference grammar -------------------------- *)

\* what a state function's invocation leaves: the lexer, the LexerFunc it
\* returns, or blocked when it never returns
Ret(lx, next) == [l |-> lx, next |-> next, blocked |-> FALSE]
Stuck(lx) == [l |-> lx, next |-> Nil, blocked |-> TRUE]

\* lexWhitespace publishing the error of its read itself as well
lexWhitespace_EmitsErr(lx) ==
  LET rd == ReadRune(lx) IN
  IF rd.blocked THEN Stuck(rd.l)
  ELSE IF rd.err # NoErr
    THEN LET e == EmitErr(rd.l, rd.err) IN
         IF e.blocked THEN Stuck(e.l) ELSE Ret(e.l, Nil)
  ELSE IF IsSpace(rd.r) THEN Ret(rd.l, "lexWhitespace")
  ELSE IF rd.r = "#" THEN Ret(rd.l, "lexComment")
  ELSE LET lb == BufferRune(rd.l, rd.r) IN
       IF rd.r = "("
         THEN LET e == Emit(lb, OpenParen) IN
              IF e.blocked THEN Stuck(e.l) ELSE Ret(e.l, "lexWhitespace")
       ELSE IF rd.r = ")"
         THEN LET e == Emit(lb, CloseParen) IN
              IF e.blocked THEN Stuck(e.l) ELSE Ret(e.l, "lexWhitespace")
       ELSE Ret(lb, "lexAlphaNum")

lexWhitespace(lx) ==
  LET rd == ReadRune(lx) IN
  IF rd.blocked THEN Stuck(rd.l)
  ELSE IF rd.err # NoErr THEN Ret(rd.l, Nil)
  ELSE IF IsSpace(rd.r) THEN Ret(rd.l, "lexWhitespace")
  ELSE IF rd.r = "#" THEN Ret(rd.l, "lexComment")
  ELSE LET lb == BufferRune(rd.l, rd.r) IN
       IF rd.r = "("
         THEN LET e == Emit(lb, OpenParen) IN
              IF e.blocked THEN Stuck(e.l) ELSE Ret(e.l, "lexWhitespace")
       ELSE IF rd.r = ")"
         THEN LET e == Emit(lb, CloseParen) IN
              IF e.blocked THEN Stuck(e.l) ELSE Ret(e.l, "lexWhitespace")
       ELSE Ret(lb, "lexAlphaNum")

\* lexComment keeping what it reads
lexComment_Buffers(lx) ==
  LET rd == ReadRune(lx) IN
  IF rd.blocked THEN Stuck(rd.l)
  ELSE IF rd.err # NoErr THEN Ret(rd.l, Nil)
  ELSE IF rd.r = "\n" THEN Ret(BufferRune(rd.l, rd.r), "lexWhitespace")
  ELSE Ret(BufferRune(rd.l, rd.r), "lexComment")

lexComment(lx) ==
  LET rd == ReadRune(lx) IN
  IF rd.blocked THEN Stuck(rd.l)
  ELSE IF rd.err # NoErr THEN Ret(rd.l, Nil)
  ELSE IF rd.r = "\n" THEN Ret(rd.l, "lexWhitespace")
  ELSE Ret(rd.l, "lexComment")

\* lexAlphaNum consuming the rune that ends the token
lexAlphaNum_ReadsDelimiter(lx) ==
  LET rd == ReadRune(lx) IN
  IF rd.blocked THEN Stuck(rd.l)
  ELSE IF rd.err # NoErr THEN Ret(rd.l, Nil)
  ELSE IF ~IsLetter(rd.r) /\ ~IsNumber(rd.r)
    THEN LET e == Emit(rd.l, AlphaNum) IN
         IF e.blocked THEN Stuck(e.l) ELSE Ret(e.l, "lexWhitespace")
  ELSE Ret(BufferRune(rd.l, rd.r), "lexAlphaNum")

\* lexAlphaNum ending a token at a digit
lexAlphaNum_LettersOnly(lx) ==
  LET pk == PeekRune(lx) IN
  IF pk.blocked THEN Stuck(pk.l)
  ELSE IF pk.err # NoErr THEN Ret(pk.l, Nil)
  ELSE IF ~IsLetter(pk.r)
    THEN LET e == Emit(pk.l, AlphaNum) IN
         IF e.blocked THEN Stuck(e.l) ELSE Ret(e.l, "lexWhitespace")
  ELSE LET rd == ReadRune(pk.l) IN
       IF rd.blocked THEN Stuck(rd.l)
       ELSE Ret(BufferRune(rd.l, pk.r), "lexAlphaNum")

lexAlphaNum(lx) ==
  LET pk == PeekRune(lx) IN
  IF pk.blocked THEN Stuck(pk.l)
  ELSE IF pk.err # NoErr THEN Ret(pk.l, Nil)
  ELSE IF ~IsLetter(pk.r) /\ ~IsNumber(pk.r)
    THEN LET e == Emit(pk.l, AlphaNum) IN
         IF e.blocked THEN Stuck(e.l) ELSE Ret(e.l, "lexWhitespace")
  ELSE LET rd == ReadRune(pk.l) IN
       IF rd.blocked THEN Stuck(rd.l)
       ELSE Ret(BufferRune(rd.l, pk.r), "lexAlphaNum")

(* ------------------------------ the driver ----------------------------- *)

\* pc: "idle"    outside Next, the caller may call it
\*     "select"  in Next, at the select of its loop
\*     "crashed" the goroutine panicked (a nil LexerFunc was called)
\*     "blocked" the goroutine is parked for ever on a send to l.ch

\* the caller calls Next
CallNext ==
  /\ pc = "idle"
  /\ pc' = "select"
  /\ UNCHANGED <<l, delivered, client>>

\* case t := <-l.ch: return t
NextReceive ==
  /\ pc = "select"
  /\ l.ch # <<>>
  /\ delivered' = Append(delivered, Head(l.ch))
  /\ l' = [l EXCEPT !.ch = Tail(@)]
  /\ pc' = "idle"
  /\ UNCHANGED client

\* default, l.state == nil: EmitErr(io.EOF), and then l.state(l) is called
\* all the same: calling the nil LexerFunc panics
NextHalted ==
  /\ pc = "select"
  /\ l.ch = <<>>
  /\ l.state = Nil
  /\ LET e == EmitErr(l, EOF) IN
       /\ l' = e.l
       /\ pc' = IF e.blocked THEN "blocked" ELSE "crashed"
  /\ UNCHANGED <<delivered, client>>

\* default, l.state != nil: l.state = l.state(l)
Step(res) ==
  /\ l' = IF res.blocked THEN res.l ELSE [res.l EXCEPT !.state = res.next]
  /\ pc' = IF res.blocked THEN "blocked" ELSE "select"
  /\ UNCHANGED <<delivered, client>>

RunLexWhitespace ==
  /\ pc = "select"
  /\ l.ch = <<>>
  /\ l.state = "lexWhitespace"
  /\ Step(lexWhitespace(l))

RunLexComment ==
  /\ pc = "select"
  /\ l.ch = <<>>
  /\ l.state = "lexComment"
  /\ Step(lexComment(l))

RunLexAlphaNum ==
  /\ pc = "select"
  /\ l.ch = <<>>
  /\ l.state = "lexAlphaNum"
  /\ Step(lexAlphaNum(l))

(* ----------------- the reference grammar's specification --------------- *)

\* a call of a method by the general client: the method, its argument, the
\* (rune, error) it returned, and for Emit the text buffered when it was called
Call(op, arg, r, err, text) ==
  [op |-> op, arg |-> arg, r |-> r, err |-> err, text |-> text]
NoCall == Call("none", "", NulRune, NoErr, <<>>)

InitClient ==
  /\ last = NoCall
  /\ nops = 0
  /\ buffered = <<>>
  /\ readLog = <<>>
  /\ peekLog = <<>>
  /\ start = [idx |-> 0, nread |-> 0]
  /\ before = [l |-> l, peekLog |-> <<>>]

Init ==
  /\ \E input \in Inputs, endErr \in EndErrs :
       l = NewLexer(input, endErr, "lexWhitespace")
  /\ pc = "idle"
  /\ delivered = <<>>
  /\ InitClient

Next ==
  \/ CallNext
  \/ NextReceive
  \/ NextHalted
  \/ RunLexWhitespace
  \/ RunLexComment
  \/ RunLexAlphaNum

Spec == Init /\ [][Next]_vars

(* -------------------------- the general client ------------------------ *)

\* The general client is a LexerFunc, userFunc, that calls the Lexer's
\* methods in any order, any number of times (at most MaxOps in all), and
\* returns userFunc or nil.  pc = "user" while an invocation of it runs.

\* a grammar-level error a state function reports with EmitErr
ErrClient == "client error"
\* the token types the general client emits
EmitTypes == {OpenParen, AlphaNum}
\* the runes the general client buffers: the one it last got, or an "a"
BufRunes == {"a"} \cup ({last.r} \ {NulRune})

\* default, l.state != nil: l.state(l) is called
RunUserFunc ==
  /\ pc = "select"
  /\ l.ch = <<>>
  /\ l.state = "userFunc"
  /\ pc' = "user"
  /\ last' = Call("call", "", NulRune, NoErr, <<>>)
  /\ UNCHANGED <<l, delivered, nops, buffered, readLog, peekLog, start,
                 before>>

\* r, err := lexer.ReadRune()
UserReadRune ==
  /\ pc = "user"
  /\ nops < MaxOps
  /\ LET rd == ReadRune(l) IN
       /\ l' = rd.l
       /\ pc' = IF rd.blocked THEN "blocked" ELSE "user"
       /\ last' = Call("ReadRune", "", rd.r, rd.err, <<>>)
       /\ readLog' = IF ~rd.blocked /\ rd.err = NoErr
                       THEN Append(readLog, rd.r) ELSE readLog
  /\ nops' = nops + 1
  /\ peekLog' = <<>>
  /\ before' = [l |-> l, peekLog |-> peekLog]
  /\ UNCHANGED <<delivered, buffered, start>>

\* r, err := lexer.PeekRune()
UserPeekRune ==
  /\ pc = "user"
  /\ nops < MaxOps
  /\ LET pk == PeekRune(l) IN
       /\ l' = pk.l
       /\ pc' = IF pk.blocked THEN "blocked" ELSE "user"
       /\ last' = Call("PeekRune", "", pk.r, pk.err, <<>>)
       /\ peekLog' = IF ~pk.blocked /\ pk.err = NoErr
                       THEN Append(peekLog,
                                   [r |-> pk.r,
                                    before |-> <<l.absRow, l.absCol>>,
                                    after |-> <<pk.l.absRow, pk.l.absCol>>])
                       ELSE peekLog
  /\ nops' = nops + 1
  /\ before' = [l |-> l, peekLog |-> peekLog]
  /\ UNCHANGED <<delivered, buffered, readLog, start>>

\* lexer.BufferRune(c).  start notes, for the first rune of a token, how
\* many runes had been read, and the rune's index in the stream when it is
\* the rune the ReadRune just before returned (0 otherwise)
UserBufferRune ==
  /\ pc = "user"
  /\ nops < MaxOps
  /\ \E c \in BufRunes :
       /\ l' = BufferRune(l, c)
       /\ last' = Call("BufferRune", c, last.r, last.err, <<>>)
       /\ buffered' = Append(buffered, c)
       /\ start' = IF buffered # <<>> THEN start
                   ELSE [idx |-> IF last.op = "ReadRune" /\ last.err = NoErr
                                     /\ c = last.r
                                   THEN l.r.pos ELSE 0,
                         nread |-> Len(readLog)]
  /\ nops' = nops + 1
  /\ before' = [l |-> l, peekLog |-> peekLog]
  /\ UNCHANGED <<pc, delivered, readLog, peekLog>>

\* lexer.Emit(t)
UserEmit ==
  /\ pc = "user"
  /\ nops < MaxOps
  /\ \E t \in EmitTypes :
       LET e == Emit(l, t) IN
         /\ l' = e.l
         /\ pc' = IF e.blocked THEN "blocked" ELSE "user"
         /\ last' = Call("Emit", t, last.r, last.err, buffered)
         /\ buffered' = IF e.blocked THEN buffered ELSE <<>>
  /\ nops' = nops + 1
  /\ before' = [l |-> l, peekLog |-> peekLog]
  /\ UNCHANGED <<delivered, readLog, peekLog, start>>

\* lexer.EmitErr(err)
UserEmitErr ==
  /\ pc = "user"
  /\ nops < MaxOps
  /\ LET e == EmitErr(l, ErrClient) IN
       /\ l' = e.l
       /\ pc' = IF e.blocked THEN "blocked" ELSE "user"
  /\ last' = Call("EmitErr", ErrClient, last.r, last.err, <<>>)
  /\ nops' = nops + 1
  /\ before' = [l |-> l, peekLog |-> peekLog]
  /\ UNCHANGED <<delivered, buffered, readLog, peekLog, start>>

\* return next: Next stores it, l.state = l.state(l)
UserReturn ==
  /\ pc = "user"
  /\ \E next \in {"userFunc", Nil} :
       l' = [l EXCEPT !.state = next]
  /\ pc' = "select"
  /\ last' = Call("return", "", NulRune, NoErr, <<>>)
  /\ UNCHANGED <<delivered, nops, buffered, readLog, peekLog, start,
                 before>>

InitUser ==
  /\ \E input \in ClientInputs, endErr \in EndErrs :
       l = NewLexer(input, endErr, "userFunc")
  /\ pc = "idle"
  /\ delivered = <<>>
  /\ InitClient

NextUser ==
  \/ CallNext
  \/ NextReceive
  \/ NextHalted
  \/ RunUserFunc
  \/ UserReadRune
  \/ UserPeekRune
  \/ UserBufferRune
  \/ UserEmit
  \/ UserEmitErr
  \/ UserReturn

SpecClient == InitUser /\ [][NextUser]_vars

(* ------------------------ vocabulary of the claims --------------------- *)

Input == l.r.buf
EofToken == Token(Err, <<>>, 0, 0, EOF)
IsEofToken(t) == t.TokenType = Err /\ t.Err = EOF
EofReturned == \E i \in 1..Len(delivered) : IsEofToken(delivered[i])

\* a token as the scenarios write it: its type, its text, its error
Shape(t) == [type |-> t.TokenType, text |-> t.Val, err |-> t.Err]
Shapes(ts) == [i \in 1..Len(ts) |-> Shape(ts[i])]
Tok(t, text) == [type |-> t, text |-> text, err |-> NoErr]
EofShape == [type |-> Err, text |-> <<>>, err |-> EOF]
IsPrefix(s, t) == Len(s) <= Len(t) /\ s = SubSeq(t, 1, Len(s))

\* the position of the i-th unit of a stream: its row is 1 + the newlines
\* before it, its column the 1-based index within its line
RowOf(input, i) == 1 + Cardinality({k \in 1..(i - 1) : input[k] = "\n"})
LineStart(input, i) ==
  LET nl == {k \in 1..(i - 1) : input[k] = "\n"} IN
  IF nl = {} THEN 0 ELSE CHOOSE k \in nl : \A j \in nl : j <= k
ColOf(input, i) == i - LineStart(input, i)

\* the text t.Val stands in the stream at index i, and t carries i's position
StandsAt(t, input, i) ==
  /\ t.Row = RowOf(input, i)
  /\ t.Col = ColOf(input, i)
  /\ i + Len(t.Val) - 1 <= Len(input)
  /\ t.Val = SubSeq(input, i, i + Len(t.Val) - 1)

\* the position after the runes rs were read, by the row/column law: a
\* newline adds 1 to the row and sets the column to 0, any other rune adds
\* 1 to the column; before any read the position is row 1, column 0
RECURSIVE LawPos(_)
LawPos(rs) ==
  IF rs = <<>>
    THEN [row |-> 1, col |-> 0]
    ELSE LET p == LawPos(SubSeq(rs, 1, Len(rs) - 1)) IN
         IF rs[Len(rs)] = "\n"
           THEN [row |-> p.row + 1, col |-> 0]
           ELSE [row |-> p.row, col |-> p.col + 1]

\* every token published so far: returned, or pending in the channel
Published == delivered \o l.ch

(* -------------------------------- C1 ----------------------------------- *)

\* C1: once the lexer is halted (l.state is nil) and no token is pending, a
\* turn of Next's loop publishes the end-of-stream token for Next to return
\* and leaves the lexer halted; the goroutine does not stop there.
C1_HaltedNextReturnsEof ==
  [][(pc = "select" /\ l.state = Nil /\ l.ch = <<>>)
       => (pc' = "select" /\ l'.state = Nil /\ l'.ch = <<EofToken>>)]_vars

(* -------------------------------- C2 ----------------------------------- *)

\* C2: Next never fails in the exception sense: the driver never calls a nil
\* LexerFunc, so the goroutine never panics.
C2_NextNeverCrashes == pc # "crashed"

(* -------------------------------- C3 ----------------------------------- *)

\* C3: with the reference grammar every run of Next calls on a finite input
\* returns an end-of-stream token: a run that can go no further has
\* returned one.
C3_EofBeforeStop == pc \in {"crashed", "blocked"} => EofReturned

(* -------------------------------- C4 ----------------------------------- *)

ExpectedParenAB ==
  << Tok(OpenParen, <<"(">>), Tok(AlphaNum, <<"a">>), Tok(AlphaNum, <<"b">>),
     Tok(CloseParen, <<")">>), EofShape >>

\* C4: on the input "(a b)" ending in end-of-stream, the tokens Next returns
\* are, in this order, OpenParen "(", AlphaNum "a", AlphaNum "b",
\* CloseParen ")" and the end-of-stream token: at every moment the tokens
\* returned are a prefix of that sequence, and the whole of it once the
\* end-of-stream token has been returned.
C4_ParenABSequence ==
  (Input = InputParenAB /\ l.r.endErr = EOF)
    => /\ IsPrefix(Shapes(delivered), ExpectedParenAB)
       /\ EofReturned => Shapes(delivered) = ExpectedParenAB

C4_Witness ==
  /\ Input = InputParenAB
  /\ l.r.endErr = EOF
  /\ Shapes(delivered) = ExpectedParenAB

(* -------------------------------- C5 ----------------------------------- *)

\* the units of a comment: from a '#' up to and including the next newline
CommentIdx(input) ==
  {i \in 1..Len(input) :
     \E j \in 1..i : input[j] = "#" /\ \A k \in j..(i - 1) : input[k] # "\n"}

\* the text stands in the stream at the position it carries, outside comments
OutsideComments(t) ==
  \E i \in 1..Len(Input) :
    /\ StandsAt(t, Input, i)
    /\ (i..(i + Len(t.Val) - 1)) \cap CommentIdx(Input) = {}

ExpectedComment ==
  << Tok(OpenParen, <<"(">>), Tok(AlphaNum, <<"x">>), Tok(CloseParen, <<")">>),
     EofShape >>

\* C5: comment text produces no tokens: no unit from a '#' up to and
\* including the next newline is in the buffer or in the text of a published
\* token, and lexing resumes after the newline: the input "# comment",
\* newline, "(x)" yields OpenParen, AlphaNum "x", CloseParen, end-of-stream.
C5_CommentsProduceNoTokens ==
  /\ \A n \in 1..Len(Published) :
       Published[n].Val # <<>> => OutsideComments(Published[n])
  /\ l.outbuf # <<>> => OutsideComments(Token(AlphaNum, l.outbuf, l.row, l.col, NoErr))
  /\ (Input = InputComment /\ l.r.endErr = EOF)
       => /\ IsPrefix(Shapes(delivered), ExpectedComment)
          /\ EofReturned => Shapes(delivered) = ExpectedComment

C5_Witness ==
  /\ Input = InputComment
  /\ l.r.endErr = EOF
  /\ Shapes(delivered) = ExpectedComment

(* -------------------------------- C6 ----------------------------------- *)

\* the token the Emit just made, while the state function is still running
EmittedNow == last.op = "Emit" /\ pc # "blocked" /\ last.text # <<>>
NewestToken == l.ch[Len(l.ch)]
\* the position counters when the first rune of the token was buffered
StartPos == LawPos(SubSeq(readLog, 1, start.nread))
\* the first rune of the token was buffered straight after it was read
ReadThenBuffered == start.idx > 0

C6_RefGrammarPosition ==
  \A n \in 1..Len(delivered) :
    delivered[n].Val # <<>>
      => \E i \in 1..Len(Input) : StandsAt(delivered[n], Input, i)

(* -------------------------------- C7 ----------------------------------- *)

\* C7: after BufferRune was called with c1..cn, an Emit(T) that returns has
\* published a token of type T whose text is exactly c1..cn, and leaves the
\* buffer empty and the start position unset; the buffer holds at any moment
\* exactly the runes buffered since the last Emit (none from before it), and
\* the first BufferRune after an Emit records the current position afresh.
C7_BufferEmitRoundTrip ==
  /\ l.outbuf = buffered
  /\ (last.op = "Emit" /\ pc # "blocked")
       => /\ l.outbuf = <<>>
          /\ l.row = -1
          /\ l.col = -1
          /\ l.ch # <<>>
          /\ l.ch[Len(l.ch)].TokenType = last.arg
          /\ l.ch[Len(l.ch)].Val = last.text
          /\ l.ch[Len(l.ch)].Err = NoErr
  /\ (last.op = "BufferRune" /\ Len(buffered) = 1)
       => /\ l.row = l.absRow
          /\ l.col = l.absCol

\* two runes were buffered and emitted, and a rune was buffered after that
C7_Witness ==
  /\ last.op = "BufferRune"
  /\ Len(buffered) = 1
  /\ \E n \in 1..Len(Published) :
       /\ Published[n].TokenType # Err
       /\ Len(Published[n].Val) = 2

(* -------------------------------- C8 ----------------------------------- *)

\* C8: absRow and absCol are what the row/column law gives for the runes
\* the successful ReadRune calls returned, starting from row 1, column 0:
\* each successful ReadRune moves them by the law and nothing else (a
\* failing ReadRune, PeekRune, BufferRune, Emit, EmitErr, Next) moves them.
C8_RowColLaw ==
  /\ l.absRow = LawPos(readLog).row
  /\ l.absCol = LawPos(readLog).col

\* a newline and then another rune were read, among other calls
C8_Witness ==
  /\ Len(readLog) >= 2
  /\ readLog[1] = "\n"
  /\ readLog[2] # "\n"
  /\ nops > Len(readLog)

(* -------------------------------- C9 ----------------------------------- *)

\* C9: the successful PeekRune calls made since the last ReadRune all
\* returned the same rune, and none of them changed absRow or absCol.
C9_PeekIdempotent ==
  \A i \in 1..Len(peekLog) :
    /\ peekLog[i].after = peekLog[i].before
    /\ \A j \in 1..Len(peekLog) : peekLog[i].r = peekLog[j].r

\* three peeks in a row succeeded, after a read
C9_Witness ==
  /\ Len(peekLog) >= 3
  /\ readLog # <<>>

(* -------------------------------- C10 ---------------------------------- *)

\* C10: a call of PeekRune, whether it returns a rune or fails, leaves the
\* unread input and the position counters as they were before the call.
C10_PeekNeverAdvances ==
  [][(last'.op = "PeekRune" /\ nops' = nops + 1)
       => /\ l'.r.pos = l.r.pos
          /\ l'.absRow = l.absRow
          /\ l'.absCol = l.absCol]_vars


(* -------------------------------- C11 ---------------------------------- *)

\* the call just made was a ReadRune or PeekRune that returned a failure of
\* the stream: end-of-stream or an I/O failure
StreamFailure ==
  /\ last.op \in {"ReadRune", "PeekRune"}
  /\ last.err \in {EOF, ErrIO}
  /\ pc # "blocked"

\* C11: a ReadRune or PeekRune that fails with end-of-stream or an I/O
\* failure has published, by the time it returns, exactly one token: of type
\* Err, carrying the failure of the underlying reader; it returns that error
\* and leaves absRow, absCol and the token buffer as they were.
C11_FailedReadPublishesOnce ==
  StreamFailure
    => /\ l.ch = Append(before.l.ch, Token(Err, <<>>, 0, 0, last.err))
       /\ last.err = l.r.endErr
       /\ last.r = NulRune
       /\ l.absRow = before.l.absRow
       /\ l.absCol = before.l.absCol
       /\ l.outbuf = before.l.outbuf
       /\ l.row = before.l.row
       /\ l.col = before.l.col

\* a PeekRune failed on an I/O failure with a rune read and a rune buffered
C11_Witness ==
  /\ StreamFailure
  /\ last.op = "PeekRune"
  /\ last.err = ErrIO
  /\ readLog # <<>>
  /\ l.outbuf # <<>>


(* -------------------------------- C12 ---------------------------------- *)

\* the index of the first undecodable byte of a stream, 0 when it has none
FirstInvalid(input) ==
  LET bad == {k \in 1..Len(input) : input[k] = Invalid} IN
  IF bad = {} THEN 0 ELSE CHOOSE k \in bad : \A j \in bad : k <= j
\* a read or a peek has met an undecodable byte
MetInvalid == FirstInvalid(Input) > 0 /\ l.r.pos >= FirstInvalid(Input)
\* the places of the invalid-encoding tokens in a sequence of tokens
InvalidTokens(ts) ==
  {n \in 1..Len(ts) : ts[n].TokenType = Err /\ ts[n].Err = errInvalidUTF8}

\* C12: with the reference grammar, once a read or a peek has met a byte
\* that does not decode, exactly one Err token carrying errInvalidUTF8 has
\* been published (none before that); Next returns it; the driver is halted
\* and reads no further; and no token that is not of type Err follows it.
C12_InvalidEncodingOnce ==
  /\ Cardinality(InvalidTokens(Published)) = IF MetInvalid THEN 1 ELSE 0
  /\ MetInvalid
       => /\ l.state = Nil
          /\ l.r.pos = FirstInvalid(Input)
          /\ pc \in {"idle", "crashed"} => InvalidTokens(delivered) # {}
  /\ \A n \in InvalidTokens(Published) :
       /\ Published[n].Err \notin {EOF, ErrIO, NoErr}
       /\ \A m \in (n + 1)..Len(Published) : Published[m].TokenType = Err

\* the invalid-encoding token was returned after another token, and Next
\* was called once more
C12_Witness ==
  /\ InvalidTokens(delivered) # {}
  /\ Len(delivered) >= 2
  /\ pc = "crashed"


(* -------------------------------- C13 ---------------------------------- *)

\* C13: every token published, and so every token Next returns, carries an
\* error exactly when its type is Err, whatever calls of Emit (with a
\* user-defined type), EmitErr (with an error), ReadRune and PeekRune the
\* state functions made.
C13_PayloadInvariant ==
  \A n \in 1..Len(Published) :
    (Published[n].Err # NoErr) <=> (Published[n].TokenType = Err)

\* Next has returned a token made by Emit, one made by EmitErr and one made
\* by a failing read or peek
C13_Witness ==
  /\ \E n \in 1..Len(delivered) : delivered[n].TokenType # Err
  /\ \E n \in 1..Len(delivered) : delivered[n].Err = ErrClient
  /\ \E n \in 1..Len(delivered) :
       delivered[n].Err \in {EOF, ErrIO, errInvalidUTF8}


(* -------------------------------- C14 ---------------------------------- *)

\* C14: with the reference grammar no publish ever blocks and at most one
\* token is pending: of the tokens published all but possibly the newest
\* have been returned by Next, so each is taken before the next is
\* published; this includes the publish Next makes once the lexer is halted.
C14_StrictAlternation ==
  /\ pc # "blocked"
  /\ Len(l.ch) <= 1
  /\ Len(Published) <= Len(delivered) + 1

\* three tokens were published and returned in turn, and the halted lexer
\* has published its end-of-stream token
C14_Witness ==
  /\ Len(delivered) >= 3
  /\ l.state = Nil
  /\ l.ch = <<EofToken>>


(* -------------------------------- C15 ---------------------------------- *)

\* C15: with the reference grammar a character that is not a parenthesis,
\* a letter, a digit, whitespace or part of a comment never appears in the
\* text of an OpenParen, CloseParen or AlphaNum token: the text of every
\* AlphaNum token consists of letters and digits only.
C15_OnlyLettersAndDigits ==
  \A n \in 1..Len(Published) :
    LET t == Published[n] IN
    /\ t.TokenType = AlphaNum
         => \A k \in 1..Len(t.Val) : IsLetter(t.Val[k]) \/ IsNumber(t.Val[k])
    /\ t.TokenType = OpenParen => t.Val = <<"(">>
    /\ t.TokenType = CloseParen => t.Val = <<")">>


(* -------------------------------- C16 ---------------------------------- *)

\* the call just made was a ReadRune, and a PeekRune had succeeded since the
\* ReadRune before it
ReadAfterPeek == last.op = "ReadRune" /\ before.peekLog # <<>>

\* C16: a ReadRune made after a successful PeekRune, with no other ReadRune
\* in between, succeeds, returns the rune the peek returned and publishes
\* no token.
C16_ReadAfterPeek ==
  ReadAfterPeek
    => /\ pc # "blocked"
       /\ last.err = NoErr
       /\ last.r = before.peekLog[1].r
       /\ l.ch = before.l.ch

\* such a ReadRune was made while a token was pending
C16_Witness ==
  /\ ReadAfterPeek
  /\ l.ch # <<>>


(* -------------------------------- C17 ---------------------------------- *)

\* a turn of Next's loop that finds a token pending returns it and touches
\* neither the current state, nor the stream, nor the output buffer
ReturnsPending ==
  (pc = "select" /\ l.ch # <<>>)
    => /\ pc' = "idle"
       /\ delivered' = Append(delivered, Head(l.ch))
       /\ l' = [l EXCEPT !.ch = Tail(@)]

\* C17: within one call to Next the driver is a trampoline: a turn that finds
\* the channel empty makes one step and comes back to the select, where a
\* token the step published is returned before any other step is made; a
\* turn that finds a token pending returns it and changes nothing else.
C17_Trampoline ==
  [][/\ ReturnsPending
     /\ (pc = "select" /\ l.ch = <<>>) => (pc' = "select" /\ Len(l'.ch) <= 1)
     /\ l'.state # l.state => (pc = "select" /\ l.ch = <<>>)]_vars

\* the same, for the turns made with a state function to call
C17_TrampolineWithAState ==
  [][/\ ReturnsPending
     /\ (pc = "select" /\ l.ch = <<>> /\ l.state # Nil)
          => (pc' = "select" /\ Len(l'.ch) <= 1)
     /\ l'.state # l.state => (pc = "select" /\ l.ch = <<>>)]_vars


(* -------------------------------- C18 ---------------------------------- *)

\* the call just made went through EmitErr: EmitErr itself, or a ReadRune
\* or PeekRune that failed
WentThroughEmitErr ==
  \/ last.op = "EmitErr"
  \/ last.op \in {"ReadRune", "PeekRune"} /\ last.err # NoErr

\* C18: EmitErr, called directly or by a failing ReadRune or PeekRune, leaves
\* the output buffer alone: the text and the recorded (row, col) are after
\* the call what they were before it, so the text the client has buffered
\* since the last Emit is still there for the next Emit.
C18_EmitErrKeepsBuffer ==
  WentThroughEmitErr
    => /\ l.outbuf = before.l.outbuf
       /\ l.row = before.l.row
       /\ l.col = before.l.col
       /\ l.outbuf = buffered

\* EmitErr returned with text buffered on the second row
C18_Witness ==
  /\ last.op = "EmitErr"
  /\ pc = "user"
  /\ l.outbuf # <<>>
  /\ l.row >= 2


(* -------------------------------- C19 ---------------------------------- *)

\* in this step the client calls a method that publishes a token: Emit,
\* EmitErr, or a ReadRune or PeekRune that fails
PublishingCall ==
  /\ pc = "user"
  /\ nops' = nops + 1
  /\ \/ last'.op \in {"Emit", "EmitErr"}
     \/ last'.op \in {"ReadRune", "PeekRune"} /\ last'.err # NoErr

\* C19: a publishing call made while a token is pending blocks for ever: the
\* goroutine is parked on the send with the first token still in the
\* channel, nothing is delivered then or later (no step leaves the parked
\* state), and a send blocks in no other case.
C19_SecondPublishBlocks ==
  [][/\ (PublishingCall /\ l.ch # <<>>)
          => /\ pc' = "blocked"
             /\ l'.ch = l.ch
             /\ delivered' = delivered
     /\ (PublishingCall /\ l.ch = <<>>) => pc' = "user"
     /\ pc = "blocked" => UNCHANGED vars]_vars

\* a ReadRune that hit the end of the stream is parked behind an emitted
\* token, in the first call to Next
C19_Witness ==
  /\ pc = "blocked"
  /\ last.op = "ReadRune"
  /\ l.ch # <<>> /\ l.ch[1].TokenType # Err
  /\ delivered = <<>>


(* -------------------------------- C20 ---------------------------------- *)

IsAlnum(c) == IsLetter(c) \/ IsNumber(c)
\* the index at which reading the stream fails: its first undecodable byte,
\* or one past its end
HaltIdx(input) ==
  IF FirstInvalid(input) = 0 THEN Len(input) + 1 ELSE FirstInvalid(input)
\* the indices at which a run begins: a character outside comments that is
\* neither whitespace, nor '#', nor a parenthesis, and that does not continue
\* the run of the character before it
RunStarts(input) ==
  {i \in 1..(HaltIdx(input) - 1) :
     /\ i \notin CommentIdx(input)
     /\ input[i] \notin Spaces \cup {"(", ")", "#"}
     /\ IsAlnum(input[i]) => (i = 1 \/ input[i - 1] \in Spaces \cup {"(", ")"})}
\* the index of the last character of the run that begins at i
RunEnd(input, i) ==
  CHOOSE e \in i..Len(input) :
    /\ \A k \in (i + 1)..e : IsAlnum(input[k])
    /\ e = Len(input) \/ ~IsAlnum(input[e + 1])
\* the run is followed by a character that is read without error
Terminated(input, i) == RunEnd(input, i) + 1 < HaltIdx(input)
TerminatedRuns(input) == {i \in RunStarts(input) : Terminated(input, i)}
PendingRuns(input) == RunStarts(input) \ TerminatedRuns(input)
RunText(input, i) == SubSeq(input, i, RunEnd(input, i))
\* the AlphaNum tokens of the terminated runs, in the order of the stream
RunTokens(input) ==
  LET T == TerminatedRuns(input)
      nth(n) == CHOOSE i \in T : Cardinality({k \in T : k < i}) = n - 1
  IN  [n \in 1..Cardinality(T) |->
         Token(AlphaNum, RunText(input, nth(n)), RowOf(input, nth(n)),
               ColOf(input, nth(n)), NoErr)]
IsAlphaNumToken(t) == t.TokenType = AlphaNum
AlphaNumPublished == SelectSeq(Published, IsAlphaNumToken)

\* C20: with the reference grammar a run is delivered only if a terminating
\* character follows it: the AlphaNum tokens published are, in order and
\* once each, the whole texts of the runs followed by a character that is
\* read without error, and all of them once the lexer has halted; a run
\* ended by the end of the stream or by a read error is in no token, its
\* text is what the buffer holds when the lexer has halted, and the token
\* published at the halt is an Err token.
C20_OnlyTerminatedRuns ==
  /\ IsPrefix(AlphaNumPublished, RunTokens(Input))
  /\ l.state = Nil
       => /\ AlphaNumPublished = RunTokens(Input)
          /\ \E n \in 1..Len(Published) : Published[n].TokenType = Err
          /\ \A i \in PendingRuns(Input) :
               /\ l.outbuf = RunText(Input, i)
               /\ \A n \in 1..Len(Published) :
                    ~(/\ Published[n].Row = RowOf(Input, i)
                      /\ Published[n].Col = ColOf(Input, i))
          /\ PendingRuns(Input) = {} => l.outbuf = <<>>

\* a first run was returned as a token, a second one was cut by the end of
\* the stream, and Next has returned the Err token
C20_Witness ==
  /\ l.state = Nil
  /\ pc = "idle"
  /\ l.outbuf # <<>>
  /\ Len(delivered) >= 2
  /\ delivered[1].TokenType = AlphaNum
  /\ delivered[Len(delivered)].TokenType = Err

====
